---- MODULE Spec2Model ----
(***************************************************************************)
(* Model of the TodoApp component (src/app/components/todo-app.tsx, the    *)
(* component of lines 1-437): the task list held in React state, the       *)
(* handlers that replace it, the filtered view, and the two effects that   *)
(* mirror it to localStorage under the key "todos".                        *)
(*                                                                         *)
(* A string is a sequence of one-character strings, so that trim() is      *)
(* computed.  A JSON text is modelled by what JSON.parse makes of it: a    *)
(* text that does not parse, or an array of objects, an object being a     *)
(* function from the keys it has to their values (JSON.stringify leaves    *)
(* out the keys whose value is undefined).                                 *)
(*                                                                         *)
(* React handles one discrete event at a time and commits the re-render    *)
(* and its effects before the next event: a handler action is the handler, *)
(* the commit of the state it set and the save effect of that commit.  On  *)
(* mount the load effect, the first save effect and the re-render are      *)
(* steps of their own.                                                     *)
(***************************************************************************)
EXTENDS Integers, Sequences, FiniteSets, TLC

\* Number of ids crypto.randomUUID() hands out in one behaviour.
MaxId == 2

\* Number of handlers that run before the component re-renders.
MaxBatch == 2

\* The value of a property an object does not have, and of a void return.
Undefined == "undefined"

\* type Priority
Priority == {"P1", "P2", "P3"}

\* The k-th value returned by crypto.randomUUID(): an opaque string.
UUID(k) == ToString(k)

\* An id that no randomUUID() call of this store returned.
ForeignId == "x"

\* What the user may type in the input field.
Inputs == {<<>>, <<" ">>, <<" ", "a", " ">>}

Views == {"all", "active", "completed"}

------------------------------------------------------------------------------
\* String.prototype.trim

IsSpace(c) == c = " "

RECURSIVE TrimStart(_)
TrimStart(s) ==
    IF s = <<>> THEN <<>>
    ELSE IF IsSpace(Head(s)) THEN TrimStart(Tail(s)) ELSE s

RECURSIVE TrimEnd(_)
TrimEnd(s) ==
    IF s = <<>> THEN <<>>
    ELSE IF IsSpace(s[Len(s)]) THEN TrimEnd(SubSeq(s, 1, Len(s) - 1)) ELSE s

Trim(s) == TrimEnd(TrimStart(s))

------------------------------------------------------------------------------
\* JSON

\* The keys JSON.stringify writes for a task: those whose value is not undefined.
KeysOf(t) ==
    {"text", "completed"}
        \cup (IF t.id # Undefined THEN {"id"} ELSE {})
        \cup (IF t.priority # Undefined THEN {"priority"} ELSE {})

JSONObject(t) == [k \in KeysOf(t) |-> t[k]]

\* JSON.stringify(tasks)
JSONstringify(ts) ==
    [kind |-> "json", value |-> [i \in 1..Len(ts) |-> JSONObject(ts[i])]]

\* Reading a property of a parsed object: undefined when the key is missing.
Get(o, k) == IF k \in DOMAIN o THEN o[k] ELSE Undefined

\* Variant: an object without a priority is given the lowest one.
ParsedObjectDefaultPriority(o) ==
    [id |-> Get(o, "id"), text |-> o.text, completed |-> o.completed,
     priority |-> IF "priority" \in DOMAIN o THEN o.priority ELSE "P3"]

ParsedObject(o) ==
    [id |-> Get(o, "id"), text |-> o.text, completed |-> o.completed,
     priority |-> Get(o, "priority")]

\* JSON.parse throws a SyntaxError on a text that is no JSON.
ParseThrows(s) == s.kind = "corrupt"

\* JSON.parse(s), for a text that parses.
JSONparse(s) == [i \in 1..Len(s.value) |-> ParsedObject(s.value[i])]

\* localStorage.getItem of a key that is not set.
Null == [kind |-> "null", value |-> <<>>]

\* A stored text that fails to parse.
Corrupt == [kind |-> "corrupt", value |-> <<>>]

\* A stored array written by something else: its first entry has no id.
Foreign ==
    [kind |-> "json",
     value |-> << [text |-> <<"a">>, completed |-> FALSE],
                  [id |-> ForeignId, text |-> <<"a">>, completed |-> TRUE,
                   priority |-> "P2"] >>]

------------------------------------------------------------------------------
\* The handlers, as functions of the task list their render captured

\* Variant: an id generator that repeats itself.
randomUUIDRepeats(n) == UUID(1)

\* crypto.randomUUID(), when it has returned n ids before: one more, new.
randomUUID(n) == UUID(n + 1)

\* Variant: the test without the trim.
RejectedUntrimmed(input) == input = <<>>

\* if (newTask.trim() === "") return
Rejected(input) == Trim(input) = <<>>

\* The object literal addTask builds.
NewTask(id, input, priority) ==
    [id |-> id, text |-> Trim(input), completed |-> FALSE, priority |-> priority]

\* Variant: the new task put first.
addTaskFirst(ts, id, input, priority) == <<NewTask(id, input, priority)>> \o ts

\* addTask: the list it passes to setTasks.
addTask(ts, id, input, priority) == Append(ts, NewTask(id, input, priority))

\* Variant: the map without the test of the id.
updateTaskPriorityAll(ts, id, priority) ==
    [i \in 1..Len(ts) |-> [ts[i] EXCEPT !.priority = priority]]

\* Variant: the task is rebuilt from its id and text, not spread.
updateTaskPriorityRebuilt(ts, id, priority) ==
    [i \in 1..Len(ts) |->
        IF ts[i].id = id THEN NewTask(ts[i].id, ts[i].text, priority) ELSE ts[i]]

\* updateTaskPriority: tasks.map(...)
updateTaskPriority(ts, id, priority) ==
    [i \in 1..Len(ts) |->
        IF ts[i].id = id THEN [ts[i] EXCEPT !.priority = priority] ELSE ts[i]]

\* Variant: the task is marked completed instead of flipped.
toggleTaskSet(ts, id) ==
    [i \in 1..Len(ts) |->
        IF ts[i].id = id THEN [ts[i] EXCEPT !.completed = TRUE] ELSE ts[i]]

\* toggleTask: tasks.map(...)
toggleTask(ts, id) ==
    [i \in 1..Len(ts) |->
        IF ts[i].id = id THEN [ts[i] EXCEPT !.completed = ~ts[i].completed]
        ELSE ts[i]]

\* Variant: the filter with its test inverted.
deleteTaskInverted(ts, id) == SelectSeq(ts, LAMBDA t : t.id = id)

\* deleteTask: tasks.filter(...)
deleteTask(ts, id) == SelectSeq(ts, LAMBDA t : t.id # id)

\* Variant: the "active" tab shows every task.
ShowsAllAsActive(view, t) == IF view = "completed" THEN t.completed ELSE TRUE

\* The predicate of filteredTasks for a tab.
Shows(view, t) ==
    IF view = "active" THEN ~t.completed
    ELSE IF view = "completed" THEN t.completed
    ELSE TRUE

\* filteredTasks
filteredTasks(ts, view) == SelectSeq(ts, LAMBDA t : Shows(view, t))

------------------------------------------------------------------------------
\* The save effect, as a function of the list of its render and the stored text

\* if (existingTasks): a stored text is truthy unless the key is not set.
Truthy(s) == s.kind # "null"

\* The effect reaches JSON.parse(existingTasks), outside any try, with a text
\* that does not parse.
SaveThrows(avail, ts, s) ==
    avail /\ Len(ts) = 0 /\ Truthy(s) /\ ParseThrows(s)

\* Variant: the effect without its guard.
SaveSkippedNever(ts, s) == FALSE

\* Variant: the guard looks at the list only when nothing is stored.
SaveSkippedUnlessStored(ts, s) == Len(ts) = 0 /\ ~Truthy(s)

\* The guard that returns before writing.
SaveSkipped(ts, s) ==
    Len(ts) = 0 /\ Truthy(s) /\ Len(JSONparse(s)) > 0

\* Variant: the effect writes only when nothing is stored yet.
SaveEffectResultOnce(avail, ts, s) ==
    IF ~avail \/ Truthy(s) THEN s ELSE JSONstringify(ts)

\* The text stored under "todos" when the effect has run without throwing.
\* A setItem that passed the availability test is taken to succeed.
SaveEffectResult(avail, ts, s) ==
    IF ~avail THEN s
    ELSE IF SaveSkipped(ts, s) THEN s
    ELSE JSONstringify(ts)

------------------------------------------------------------------------------
VARIABLES
    tasks,              \* useState<Task[]>: the list of the current render
    pending,            \* the list passed to setTasks, not yet rendered
    newTask,            \* useState(""): the input field
    selectedPriority,   \* useState<Priority | undefined>
    activeTab,          \* useState("all")
    todos,              \* localStorage["todos"]
    available,          \* whether localStorage can be written
    issued,             \* how many ids randomUUID() has returned
    pc,                 \* where the component is: "load", "save", "render",
                        \* "idle", "batch" (a handler has run, the re-render
                        \* has not), or "crashed" after an uncaught exception
    lastOp,             \* history: the last effect or handler that ran
    created,            \* history: the ids addTask has given to a task
    toggles,            \* history: how many times in a row (up to 2) lastOp,
                        \* a toggleTask, has been called with lastOp.id
    base,               \* history: the list before the first of these calls
    removed,            \* history: the ids deleteTask was called with since mount
    expected,           \* history: the list that applying every handler called
                        \* since the last render to the result of the one before
                        \* gives
    initial             \* history: what was stored when the page first opened

vars == <<tasks, pending, newTask, selectedPriority, activeTab, todos, available,
          issued, pc, lastOp, created, toggles, base, removed, expected, initial>>

\* The list given to setTasks since the last render, if any, and how many
\* handlers have called setTasks since.
NoUpdate == [set |-> FALSE, value |-> <<>>, calls |-> 0]
Update(ts) == [set |-> TRUE, value |-> ts, calls |-> 1]

\* A handler or effect that ran, the id it was called with, and what it returned
\* (the handlers and the effects return nothing).
Op(op, id) == [op |-> op, id |-> id, ret |-> Undefined]

\* The ids a handler is called with: those addTask gave to the tasks there are or
\* were (a task that was deleted, or that the last load did not bring back, is no
\* longer in the list).
Ids == {UUID(k) : k \in 1..issued}

TaskIds(ts) == {ts[i].id : i \in 1..Len(ts)}

NoToggles == toggles' = 0 /\ base' = <<>>

\* The state right after the first render.
Init ==
    /\ tasks = <<>>
    /\ pending = NoUpdate
    /\ newTask = <<>>
    /\ selectedPriority = Undefined
    /\ activeTab = "all"
    /\ available \in BOOLEAN
    /\ todos \in (IF available THEN {Null, Corrupt, Foreign} ELSE {Null})
    /\ initial = todos
    /\ issued = 0
    /\ pc = "load"
    /\ lastOp = Op("mount", Undefined)
    /\ created = {}
    /\ toggles = 0
    /\ base = <<>>
    /\ removed = {}
    /\ expected = <<>>

\* The first effect: load the tasks when the component mounts.
LoadEffect ==
    /\ pc = "load"
    /\ pending' =
         IF available /\ Truthy(todos) /\ ~ParseThrows(todos)
         THEN Update(JSONparse(todos))
         ELSE pending
    /\ pc' = "save"
    /\ lastOp' = Op("load", Undefined)
    /\ expected' = (IF pending'.set THEN pending'.value ELSE expected)
    /\ UNCHANGED <<tasks, newTask, selectedPriority, activeTab, todos, available,
                   issued, created, toggles, base, removed, initial>>

\* The second effect, after a render whose task list changed (and after the first).
SaveEffect ==
    /\ pc = "save"
    /\ IF SaveThrows(available, tasks, todos)
       THEN /\ pc' = "crashed"
            /\ todos' = todos
       ELSE /\ pc' = (IF pending.set THEN "render" ELSE "idle")
            /\ todos' = SaveEffectResult(available, tasks, todos)
    /\ UNCHANGED <<tasks, pending, newTask, selectedPriority, activeTab, available,
                   issued, lastOp, created, toggles, base, removed, expected,
                   initial>>

\* The re-render that takes the list the load effect set.
Render ==
    /\ pc = "render"
    /\ tasks' = pending.value
    /\ pending' = NoUpdate
    /\ pc' = "save"
    /\ UNCHANGED <<newTask, selectedPriority, activeTab, todos, available, issued,
                   lastOp, created, toggles, base, removed, expected, initial>>

\* A handler has called setTasks(new): the re-render and its save effect.
Commit(new) ==
    /\ tasks' = new
    /\ IF SaveThrows(available, new, todos)
       THEN /\ pc' = "crashed"
            /\ todos' = todos
       ELSE /\ pc' = "idle"
            /\ todos' = SaveEffectResult(available, new, todos)

\* onChange of the input field
SetNewTask(s) ==
    /\ pc = "idle"
    /\ newTask' = s
    /\ lastOp' = Op("ui", Undefined)
    /\ NoToggles
    /\ UNCHANGED <<tasks, pending, selectedPriority, activeTab, todos, available,
                   issued, pc, created, removed, expected, initial>>

\* the priority menu beside the input field
SetSelectedPriority(p) ==
    /\ pc = "idle"
    /\ selectedPriority' = p
    /\ lastOp' = Op("ui", Undefined)
    /\ NoToggles
    /\ UNCHANGED <<tasks, pending, newTask, activeTab, todos, available, issued, pc,
                   created, removed, expected, initial>>

\* onValueChange of the tabs
SetActiveTab(v) ==
    /\ pc = "idle"
    /\ activeTab' = v
    /\ lastOp' = Op("ui", Undefined)
    /\ NoToggles
    /\ UNCHANGED <<tasks, pending, newTask, selectedPriority, todos, available,
                   issued, pc, created, removed, expected, initial>>

AddTask ==
    /\ pc = "idle"
    /\ lastOp' = Op("add", IF Rejected(newTask) THEN Undefined ELSE randomUUID(issued))
    /\ NoToggles
    /\ IF Rejected(newTask)
       THEN UNCHANGED <<tasks, newTask, selectedPriority, todos, issued, pc, created,
                        expected>>
       ELSE /\ issued < MaxId
            /\ issued' = issued + 1
            /\ expected' = addTask(tasks, randomUUID(issued), newTask,
                                   selectedPriority)
            /\ created' = created \cup {randomUUID(issued)}
            /\ Commit(addTask(tasks, randomUUID(issued), newTask, selectedPriority))
            /\ newTask' = <<>>
            /\ selectedPriority' = Undefined
    /\ UNCHANGED <<pending, activeTab, available, removed, initial>>

UpdateTaskPriority(id, p) ==
    /\ pc = "idle"
    /\ lastOp' = Op("priority", id)
    /\ NoToggles
    /\ expected' = updateTaskPriority(tasks, id, p)
    /\ Commit(updateTaskPriority(tasks, id, p))
    /\ UNCHANGED <<pending, newTask, selectedPriority, activeTab, available, issued,
                   created, removed, initial>>

ToggleTask(id) ==
    /\ pc = "idle"
    /\ lastOp' = Op("toggle", id)
    /\ IF lastOp = Op("toggle", id) /\ toggles = 1
       THEN toggles' = 2 /\ base' = base
       ELSE toggles' = 1 /\ base' = tasks
    /\ expected' = toggleTask(tasks, id)
    /\ Commit(toggleTask(tasks, id))
    /\ UNCHANGED <<pending, newTask, selectedPriority, activeTab, available, issued,
                   created, removed, initial>>

DeleteTask(id) ==
    /\ pc = "idle"
    /\ lastOp' = Op("delete", id)
    /\ removed' = removed \cup {id}
    /\ NoToggles
    /\ expected' = deleteTask(tasks, id)
    /\ Commit(deleteTask(tasks, id))
    /\ UNCHANGED <<pending, newTask, selectedPriority, activeTab, available, issued,
                   created, initial>>

\* The page is opened again: every useState starts over, the storage stays.
Reload ==
    /\ pc \in {"idle", "crashed"}
    /\ tasks' = <<>>
    /\ pending' = NoUpdate
    /\ newTask' = <<>>
    /\ selectedPriority' = Undefined
    /\ activeTab' = "all"
    /\ pc' = "load"
    /\ lastOp' = Op("mount", Undefined)
    /\ removed' = {}
    /\ expected' = <<>>
    /\ NoToggles
    /\ UNCHANGED <<todos, available, issued, created, initial>>

Next ==
    \/ LoadEffect
    \/ SaveEffect
    \/ Render
    \/ \E s \in Inputs : SetNewTask(s)
    \/ \E p \in Priority \cup {Undefined} : SetSelectedPriority(p)
    \/ AddTask
    \/ \E id \in Ids, p \in Priority \cup {Undefined} : UpdateTaskPriority(id, p)
    \/ \E id \in Ids : ToggleTask(id)
    \/ \E id \in Ids : DeleteTask(id)
    \/ Reload

\* The component with the tab left on "all".
Spec == Init /\ [][Next]_vars

\* The component with its tabs, opened on an empty, writable storage.
TabInit == Init /\ available /\ todos = Null

TabNext == Next \/ \E v \in Views : SetActiveTab(v)

TabSpec == TabInit /\ [][TabNext]_vars

------------------------------------------------------------------------------
\* Handlers called again before the re-render: React queues the list given to
\* setTasks, and a handler of the same render still reads the list that render
\* captured (the handlers pass a list to setTasks, not an updater function).

\* The list the handlers called since the last render have made, one after the
\* other.
SoFar == IF pc = "batch" THEN expected ELSE tasks

\* A handler of the batch is called with the id of a task the render shows.

\* setTasks(new), the re-render still to come.
Queue(new) ==
    /\ pending.calls < MaxBatch
    /\ pending' = [Update(new) EXCEPT !.calls = pending.calls + 1]
    /\ pc' = "batch"
    /\ UNCHANGED <<tasks, todos>>

\* addTask as the first event of a batch (a second one would read the input field
\* of the render, which is not modelled here).
AddTaskQueued ==
    /\ pc = "idle"
    /\ ~Rejected(newTask)
    /\ issued < MaxId
    /\ lastOp' = Op("add", randomUUID(issued))
    /\ issued' = issued + 1
    /\ created' = created \cup {randomUUID(issued)}
    /\ expected' = addTask(SoFar, randomUUID(issued), newTask, selectedPriority)
    /\ Queue(addTask(tasks, randomUUID(issued), newTask, selectedPriority))
    /\ newTask' = <<>>
    /\ selectedPriority' = Undefined
    /\ NoToggles
    /\ UNCHANGED <<activeTab, available, removed, initial>>

UpdateTaskPriorityQueued(id, p) ==
    /\ pc \in {"idle", "batch"}
    /\ id \in TaskIds(tasks)
    /\ lastOp' = Op("priority", id)
    /\ expected' = updateTaskPriority(SoFar, id, p)
    /\ Queue(updateTaskPriority(tasks, id, p))
    /\ NoToggles
    /\ UNCHANGED <<newTask, selectedPriority, activeTab, available, issued, created,
                   removed, initial>>

ToggleTaskQueued(id) ==
    /\ pc \in {"idle", "batch"}
    /\ id \in TaskIds(tasks)
    /\ lastOp' = Op("toggle", id)
    /\ expected' = toggleTask(SoFar, id)
    /\ Queue(toggleTask(tasks, id))
    /\ NoToggles
    /\ UNCHANGED <<newTask, selectedPriority, activeTab, available, issued, created,
                   removed, initial>>

DeleteTaskQueued(id) ==
    /\ pc \in {"idle", "batch"}
    /\ id \in TaskIds(tasks)
    /\ lastOp' = Op("delete", id)
    /\ removed' = removed \cup {id}
    /\ expected' = deleteTask(SoFar, id)
    /\ Queue(deleteTask(tasks, id))
    /\ NoToggles
    /\ UNCHANGED <<newTask, selectedPriority, activeTab, available, issued, created,
                   initial>>

\* The re-render after the batch, with the last list given to setTasks, and its
\* save effect.
Flush ==
    /\ pc = "batch"
    /\ pending' = NoUpdate
    /\ Commit(pending.value)
    /\ UNCHANGED <<newTask, selectedPriority, activeTab, available, issued, lastOp,
                   created, toggles, base, removed, expected, initial>>

BatchNext ==
    \/ Next
    \/ AddTaskQueued
    \/ \E id \in Ids, p \in Priority \cup {Undefined} : UpdateTaskPriorityQueued(id, p)
    \/ \E id \in Ids : ToggleTaskQueued(id)
    \/ \E id \in Ids : DeleteTaskQueued(id)
    \/ Flush

\* The component, opened on an empty, writable storage, with handlers that may
\* run before the re-render of the one before.
BatchSpec == TabInit /\ [][BatchNext]_vars

------------------------------------------------------------------------------
\* Properties

AllSpaces(s) == \A i \in 1..Len(s) : s[i] = " "

Spaces(n) == [i \in 1..n |-> " "]

\* t is s without the white space at its two ends, and is not empty.
TrimmedOf(s, t) ==
    /\ t # <<>>
    /\ t[1] # " "
    /\ t[Len(t)] # " "
    /\ \E i, j \in 0..Len(s) : s = Spaces(i) \o t \o Spaces(j)

RECURSIVE IsSubsequence(_, _)
IsSubsequence(a, b) ==
    IF a = <<>> THEN TRUE
    ELSE IF b = <<>> THEN FALSE
    ELSE IF Head(a) = Head(b) THEN IsSubsequence(Tail(a), Tail(b))
    ELSE IsSubsequence(a, Tail(b))

Distinct(ts) == \A i, j \in 1..Len(ts) : i # j => ts[i].id # ts[j].id

\* A task as the data model has it.
ValidTask(t) ==
    /\ t.id # Undefined
    /\ t.text # <<>>
    /\ t.completed \in BOOLEAN
    /\ t.priority \in Priority \cup {Undefined}

Valid(ts) == \A i \in 1..Len(ts) : ValidTask(ts[i])

\* C1: an add whose input is not empty after trimming appends exactly one task at
\* the end of the list: the tasks there were keep their fields and their order, the
\* new one is not completed, has the trimmed input as its text and the priority
\* selected at the time of the add.
C1_AddAppendsOne ==
    [][(lastOp'.op = "add" /\ ~AllSpaces(newTask)) =>
        /\ Len(tasks') = Len(tasks) + 1
        /\ SubSeq(tasks', 1, Len(tasks)) = tasks
        /\ ~tasks'[Len(tasks')].completed
        /\ TrimmedOf(newTask, tasks'[Len(tasks')].text)
        /\ tasks'[Len(tasks')].priority = selectedPriority]_vars

\* An add was accepted: the second task, with the priority P1, came after a first
\* one that had been completed.
C1_Witness ==
    /\ lastOp.op = "add"
    /\ lastOp.id # Undefined
    /\ Len(tasks) = 2
    /\ tasks[1].completed
    /\ tasks[2].id = lastOp.id
    /\ tasks[2].priority = "P1"

\* C2: an add whose input is empty or white space only changes nothing (the list,
\* what is stored, the ids handed out) and raises no error.
C2_EmptyAddRejected ==
    [][(lastOp'.op = "add" /\ AllSpaces(newTask)) =>
        /\ tasks' = tasks
        /\ pending' = pending
        /\ todos' = todos
        /\ issued' = issued
        /\ pc' = "idle"]_vars

\* An add of a single space was rejected, with a task in the list.
C2_Witness ==
    /\ lastOp.op = "add"
    /\ lastOp.id = Undefined
    /\ newTask = <<" ">>
    /\ Len(tasks) = 1

\* C3: as long as the lists loaded are lists the store saved, the ids of the tasks
\* in the list are pairwise distinct, and the id an add generates is the id of no
\* task created before, removed or not.
C3_IdsUnique ==
    [][/\ initial.kind # "json" => Distinct(tasks')
       /\ (lastOp'.op = "add" /\ lastOp'.id # Undefined) =>
            /\ tasks'[Len(tasks')].id = lastOp'.id
            /\ lastOp'.id \notin created
            /\ lastOp'.id \notin TaskIds(tasks)]_vars

\* A task was added after another one had been removed.
C3_Witness ==
    /\ lastOp.op = "add"
    /\ lastOp.id \in TaskIds(tasks)
    /\ removed # {}
    /\ initial.kind # "json"

\* C4: every view is the list with some tasks left out, in the order of the list;
\* "all" is the whole list; the ids of "active" and of "completed" are disjoint and
\* together they are the ids of "all".
C4_ViewsPartition ==
    /\ filteredTasks(tasks, "all") = tasks
    /\ \A v \in Views : IsSubsequence(filteredTasks(tasks, v), tasks)
    /\ IsSubsequence(filteredTasks(tasks, activeTab), tasks)
    /\ TaskIds(filteredTasks(tasks, "active"))
         \cap TaskIds(filteredTasks(tasks, "completed")) = {}
    /\ TaskIds(filteredTasks(tasks, "active"))
         \cup TaskIds(filteredTasks(tasks, "completed"))
         = TaskIds(filteredTasks(tasks, "all"))

\* The "completed" tab shows the second of two tasks only.
C4_Witness ==
    /\ activeTab = "completed"
    /\ Len(tasks) = 2
    /\ filteredTasks(tasks, activeTab) = <<tasks[2]>>

\* C5: two toggles in a row of the id of a task of the list give back the list
\* there was before the first.
C5_ToggleTwice ==
    (toggles = 2 /\ lastOp.id \in TaskIds(base)) => tasks = base

\* The second of two tasks was toggled twice.
C5_Witness ==
    /\ toggles = 2
    /\ Len(tasks) = 2
    /\ lastOp.id = tasks[2].id

C7_RemovedStaysOut ==
    [][/\ removed' \cap TaskIds(tasks') = {}
       /\ removed' \cap TaskIds(filteredTasks(tasks', "all")) = {}
       /\ lastOp'.op = "delete" =>
            /\ IsSubsequence(tasks', tasks)
            /\ \A i \in 1..Len(tasks) :
                 tasks[i].id # lastOp'.id => \E j \in 1..Len(tasks') : tasks'[j] = tasks[i]
            /\ Len(tasks') = Cardinality({i \in 1..Len(tasks) : tasks[i].id # lastOp'.id})
      ]_vars

\* The first of two tasks was removed, and the other was toggled afterwards.
C7_Witness ==
    /\ removed = {UUID(1)}
    /\ lastOp.op = "toggle"
    /\ Len(tasks) = 1
    /\ tasks[1].id = UUID(2)
    /\ tasks[1].completed

\* C8: a valid list is the list that parsing its serialization gives, task by task
\* (id, text, completed, priority, an absent priority staying absent); and a valid
\* list the load effect sets serializes to the very text that was stored.
C8_RoundTrip ==
    /\ Valid(tasks) => JSONparse(JSONstringify(tasks)) = tasks
    /\ (pending.set /\ Valid(pending.value)) => JSONstringify(pending.value) = todos

\* Two tasks the store had saved were loaded: a completed one without priority and
\* one with a priority.
C8_Witness ==
    /\ lastOp.op = "load"
    /\ pc = "idle"
    /\ Len(tasks) = 2
    /\ tasks[1].completed
    /\ tasks[1].priority = Undefined
    /\ tasks[2].priority = "P2"
    /\ todos = JSONstringify(tasks)

\* C9, as the spec has it: the list a load leaves is made of the valid entries of
\* the stored array, in their order, the malformed ones being skipped.
C9_MalformedSkipped ==
    (lastOp.op = "load" /\ pc = "idle" /\ available /\ Truthy(todos))
        => tasks = SelectSeq(JSONparse(todos), ValidTask)

\* C10, as the spec has it: with a stored text that does not parse, no effect ends
\* in an uncaught exception.
C10_CorruptNeverFatal ==
    initial = Corrupt => pc # "crashed"

\* A stored array with at least one entry.
NonEmptySnapshot(s) == s.kind = "json" /\ Len(s.value) > 0

Mounting == pc \in {"load", "save", "render"}

\* C11: while the component mounts on a stored array that is not empty, no effect
\* changes what is stored (the save of the first render, whose list is empty, is
\* skipped), and when the mount is over the list is the stored array.
C11_MountKeepsSnapshot ==
    [][(available /\ Mounting /\ NonEmptySnapshot(todos)) =>
        /\ todos' = todos
        /\ pc' # "crashed"
        /\ pc' = "idle" => tasks' = JSONparse(todos')]_vars

\* The save of the first render has run on a stored list of two tasks and left
\* it: the loaded list is still to be rendered.
C11_Witness ==
    /\ pc = "render"
    /\ tasks = <<>>
    /\ pending.set
    /\ Len(pending.value) = 2
    /\ Valid(pending.value)
    /\ todos = JSONstringify(pending.value)

\* C12: once an array that is not empty is stored, what is stored never becomes
\* empty; a remove that empties the list leaves what is stored as it is, the
\* serialization of the list there was before it, and the load of the next mount
\* brings that list back.
C12_DeleteAllNotPersisted ==
    [][/\ (available /\ NonEmptySnapshot(todos)) => NonEmptySnapshot(todos')
       /\ (available /\ lastOp'.op = "delete" /\ tasks # <<>> /\ tasks' = <<>>) =>
            (todos' = todos /\ todos' = JSONstringify(tasks))
       /\ (available /\ Mounting /\ NonEmptySnapshot(todos) /\ pc' = "idle") =>
            (tasks' # <<>> /\ JSONstringify(tasks') = todos)]_vars

\* The last task of the list was removed and is still stored.
C12_Witness ==
    /\ lastOp.op = "delete"
    /\ pc = "idle"
    /\ tasks = <<>>
    /\ removed # {}
    /\ NonEmptySnapshot(todos)

\* Everything of a task but the field f.
Without(t, f) == [k \in DOMAIN t \ {f} |-> t[k]]

\* C13: a toggle changes the completed field of the tasks with its id and nothing
\* else, a priority update their priority field and nothing else: the length and
\* the order of the list, the id and the text of every task and every field of
\* the other tasks are as before.
C13_UpdateFrame ==
    [][/\ lastOp'.op = "toggle" =>
            /\ Len(tasks') = Len(tasks)
            /\ \A i \in 1..Len(tasks) :
                 IF tasks[i].id = lastOp'.id
                 THEN /\ Without(tasks'[i], "completed") = Without(tasks[i], "completed")
                      /\ tasks'[i].completed = ~tasks[i].completed
                 ELSE tasks'[i] = tasks[i]
       /\ lastOp'.op = "priority" =>
            /\ Len(tasks') = Len(tasks)
            /\ \A i \in 1..Len(tasks) :
                 IF tasks[i].id = lastOp'.id
                 THEN /\ Without(tasks'[i], "priority") = Without(tasks[i], "priority")
                      /\ tasks'[i].priority \in Priority \cup {Undefined}
                 ELSE tasks'[i] = tasks[i]]_vars

\* The priority of the first of two tasks, a completed one, was set to P3.
C13_Witness ==
    /\ lastOp.op = "priority"
    /\ Len(tasks) = 2
    /\ lastOp.id = tasks[1].id
    /\ tasks[1].completed
    /\ tasks[1].priority = "P3"

\* C14: with a storage that can be written, after an add, a toggle, a priority
\* update or a remove that leaves tasks in the list, what is stored is the
\* serialization of the list.
C14_SnapshotMirrorsList ==
    (/\ available
     /\ lastOp.op \in {"add", "toggle", "priority", "delete"}
     /\ tasks # <<>>)
        => (pc = "idle" /\ todos = JSONstringify(tasks))

\* One of two tasks was removed; the other, with a priority, is what is stored.
C14_Witness ==
    /\ available
    /\ lastOp.op = "delete"
    /\ Len(tasks) = 1
    /\ lastOp.id \notin TaskIds(tasks)
    /\ lastOp.id \in created
    /\ tasks[1].priority = "P1"
    /\ todos = JSONstringify(tasks)

\* C15, as the spec has it: when the handlers have run and the component has
\* re-rendered, the list is the one that applying each handler to the result of
\* the one before gives, also when a handler ran before the re-render of the one
\* before.
C15_NoLostUpdate ==
    pc = "idle" => tasks = expected

====
